---- MODULE Spec2Model ----
(***************************************************************************)
(* A model of ihg_pipeline.py: the hotel scraper (scrape_city,             *)
(* scrape_hotel_detail) driving a browser with tabs, and the resumable     *)
(* store (load_existing_output, append_or_merge, save_outputs) that main   *)
(* runs after every city.                                                  *)
(*                                                                         *)
(* Python values are tagged records [t, v]: t is the Python type and v the *)
(* content as a sequence of text chunks (a str is the concatenation of its *)
(* chunks; a list holds its items; a dict holds key, value, key, value...).*)
(***************************************************************************)
EXTENDS Naturals, Sequences, FiniteSets, TLC

VARIABLES
    OVERWRITE,          \* config, ihg_pipeline.py:39
    RUN_ONLY_ONE_CITY,  \* config, ihg_pipeline.py:38
    CITY_CSV,           \* content of the city list file
    enum_calls,         \* history: calls of scrape_city_urls in this run
    csv_writes,         \* history: writes of the city list file in this run
    HOTEL_JSON,         \* content of the JSON output file
    HOTEL_CSV,          \* content of the CSV output file
    run,                \* number of the current process run
    pc,                 \* position of main / scrape_city / scrape_hotel_detail
    cities,             \* main: the city list
    ci,                 \* main: index of the city being processed
    all_hotels,         \* main: the merged records
    hotels,             \* scrape_city: the records of this city / main: its result
    ncards,             \* scrape_city: number of cards found on the city page
    idx,                \* scrape_city: index of the card being processed
    card,               \* the card element being processed
    hotel_record,       \* scrape_city: the record being built
    out,                \* scrape_hotel_detail: the detail dict
    tabs,               \* browser: the open window handles
    focus,              \* browser: the current window handle
    main_handle,        \* scrape_hotel_detail: local `main`
    list_tab,           \* browser: the tab the city page was loaded in
    faults,             \* number of browser faults raised so far in this run
    hist,               \* browser: session history of the detail tab, current page last
    nav,                \* history: link clicks and back-navigations in the detail tab
    merge_in,           \* history: all_hotels and hotels as the last merge read them
    json_before,        \* history: HOTEL_JSON before the last save
    log,                \* history: what scrape_city returned, per city, this run
    prev_log,           \* history: the same for the previous run
    prev_json           \* history: HOTEL_JSON at the end of the previous run

vars == <<OVERWRITE, RUN_ONLY_ONE_CITY, CITY_CSV, enum_calls, csv_writes, HOTEL_JSON, HOTEL_CSV, run, pc,
          cities, ci, all_hotels, hotels, ncards, idx, card, hotel_record, out,
          tabs, focus, main_handle, list_tab, faults, hist, nav, merge_in,
          json_before, log, prev_log, prev_json>>

---------------------------------------------------------------------------
(* Bounds of the model *)

MaxCities == 2
MaxCards == 2
MaxRuns == 2
MaxFaults == 1
MaxPrior == 2

---------------------------------------------------------------------------
(* Python values *)

None == [t |-> "none", v |-> <<>>]
Str(chunks) == [t |-> "str", v |-> chunks]
List(items) == [t |-> "list", v |-> items]
Dict(kv) == [t |-> "dict", v |-> kv]
Bool(b) == [t |-> "bool", v |-> IF b THEN <<"True">> ELSE <<"False">>]

\* Python truthiness: None, "", [], {} and False are falsy.
Truthy(x) ==
    CASE x.t = "none" -> FALSE
      [] x.t = "bool" -> x.v = <<"True">>
      [] OTHER -> x.v # <<>>

FIELDS == <<"hotel_code", "hotel_name", "address", "phone", "rating",
            "description", "card_price", "overview_table_json", "pets_json",
            "parking_json", "amenities_json", "nearby_json", "airport_json",
            "is_pet_friendly", "last_updated">>

FieldSet == {FIELDS[i] : i \in 1..Len(FIELDS)}

JSON_KEYS == {"overview_table_json", "pets_json", "parking_json",
              "amenities_json", "nearby_json", "airport_json"}

HELPER_KEYS == {"_detail_url", "_city"}

\* dict.get(key): None when the key is missing
Get(d, k) == IF k \in DOMAIN d THEN d[k] ELSE None

---------------------------------------------------------------------------
(* json.dumps of a value, as text chunks *)

Q == "\""

RECURSIVE JoinItems(_)
JoinItems(items) ==
    IF items = <<>> THEN <<>>
    ELSE <<Q, Head(items), Q>>
         \o (IF Tail(items) = <<>> THEN <<>> ELSE <<", ">>)
         \o JoinItems(Tail(items))

RECURSIVE JoinPairs(_)
JoinPairs(kv) ==
    IF Len(kv) < 2 THEN <<>>
    ELSE <<Q, kv[1], Q, ": ", Q, kv[2], Q>>
         \o (IF Len(kv) > 2 THEN <<", ">> ELSE <<>>)
         \o JoinPairs(SubSeq(kv, 3, Len(kv)))

json_dumps(x) ==
    CASE x.t = "none" -> Str(<<"null">>)
      [] x.t = "bool" -> Str(IF x.v = <<"True">> THEN <<"true">> ELSE <<"false">>)
      [] x.t = "str"  -> Str(<<Q>> \o x.v \o <<Q>>)
      [] x.t = "list" -> Str(<<"[">> \o JoinItems(x.v) \o <<"]">>)
      [] x.t = "dict" -> Str(<<"{">> \o JoinPairs(x.v) \o <<"}">>)

\* Whether a text parses as JSON (json.loads accepts it): a literal, a string,
\* an array of strings or an object of string members.
Punct == {Q, "[", "]", "{", "}", ", ", ": "}

IsJsonArrayText(s) ==
    /\ Len(s) >= 2 /\ s[1] = "[" /\ s[Len(s)] = "]"
    /\ LET n == Len(s) - 2 IN
        /\ n = 0 \/ n % 4 = 3
        /\ \A i \in 1..n :
              CASE i % 4 = 1 -> s[i + 1] = Q
                [] i % 4 = 2 -> s[i + 1] \notin Punct
                [] i % 4 = 3 -> s[i + 1] = Q
                [] OTHER     -> s[i + 1] = ", "

IsJsonObjectText(s) ==
    /\ Len(s) >= 2 /\ s[1] = "{" /\ s[Len(s)] = "}"
    /\ LET n == Len(s) - 2 IN
        /\ n = 0 \/ n % 8 = 7
        /\ \A i \in 1..n :
              CASE i % 8 \in {1, 3, 5, 7} -> s[i + 1] = Q
                [] i % 8 \in {2, 6}       -> s[i + 1] \notin Punct
                [] i % 8 = 4              -> s[i + 1] = ": "
                [] OTHER                  -> s[i + 1] = ", "

IsJsonText(s) ==
    \/ s \in {<<"null">>, <<"true">>, <<"false">>}
    \/ Len(s) = 3 /\ s[1] = Q /\ s[3] = Q /\ s[2] \notin Punct
    \/ IsJsonArrayText(s)
    \/ IsJsonObjectText(s)

---------------------------------------------------------------------------
(* Files: the JSON output document and the CSV output *)

\* json.dump / json.load of one value: Python types to JSON types and back.
JsonValue(x) ==
    [t |-> CASE x.t = "none" -> "null"
             [] x.t = "str"  -> "string"
             [] x.t = "list" -> "array"
             [] x.t = "dict" -> "object"
             [] x.t = "bool" -> "boolean",
     v |-> x.v]

PyValue(j) ==
    [t |-> CASE j.t = "null"    -> "none"
             [] j.t = "string"  -> "str"
             [] j.t = "array"   -> "list"
             [] j.t = "object"  -> "dict"
             [] j.t = "boolean" -> "bool",
     v |-> j.v]

JsonObject(r) == [k \in DOMAIN r |-> JsonValue(r[k])]
PyDict(o) == [k \in DOMAIN o |-> PyValue(o[k])]

\* A file that does not exist.
Absent == [kind |-> "absent", items |-> <<>>]

\* json.dump(records, f): an array with one object per record, in order.
json_dump(records) ==
    [kind |-> "array",
     items |-> [i \in 1..Len(records) |-> [obj |-> TRUE, d |-> JsonObject(records[i])]]]

\* csv.DictWriter cell: None is written as the empty string, the rest as str(value).
CsvCell(x) ==
    CASE x.t = "none" -> <<>>
      [] x.t = "str"  -> x.v
      [] x.t = "bool" -> x.v
      [] OTHER        -> <<"repr">> \o x.v

csv_rows(records) ==
    [kind |-> "csv",
     items |-> [i \in 1..Len(records) |->
                  [k \in FieldSet |-> CsvCell(Get(records[i], k))]]]

---------------------------------------------------------------------------
(* Python dicts keyed by the identity key, in insertion order *)

KeyOf(d) == <<Get(d, "hotel_code"), Get(d, "hotel_name")>>

EmptyMap == <<>>

HasKey(m, key) == \E i \in 1..Len(m) : m[i].k = key

\* m[key] = d: a present key keeps its position, a new key goes last.
DictSet(m, key, d) ==
    IF HasKey(m, key)
    THEN [i \in 1..Len(m) |-> IF m[i].k = key THEN [k |-> key, d |-> d] ELSE m[i]]
    ELSE Append(m, [k |-> key, d |-> d])

Values(m) == [i \in 1..Len(m) |-> m[i].d]

\* {(h.get('hotel_code'), h.get('hotel_name')): h for h in all_hotels}
RECURSIVE DictFromList(_, _)
DictFromList(hs, acc) ==
    IF hs = <<>> THEN acc
    ELSE DictFromList(Tail(hs), DictSet(acc, KeyOf(Head(hs)), Head(hs)))

---------------------------------------------------------------------------
(* Resumable store *)

\* The loop of load_existing_output over the parsed document: an element that
\* is no object raises at d.get, the except clause passes, and `existing`
\* keeps what the loop had stored by then.
RECURSIVE LoadItems(_, _)
LoadItems(items, existing) ==
    IF items = <<>> THEN existing
    ELSE IF ~Head(items).obj THEN existing
    ELSE LET d == PyDict(Head(items).d)
         IN LoadItems(Tail(items), DictSet(existing, KeyOf(d), d))

\* Mutant of load_existing_output: the prior output is never read.
load_existing_output_never == EmptyMap

load_existing_output ==
    IF HOTEL_JSON.kind # "absent" /\ ~OVERWRITE
    THEN IF HOTEL_JSON.kind = "array"
         THEN LoadItems(HOTEL_JSON.items, EmptyMap)
         ELSE EmptyMap      \* json.load raises, or the document is not iterable
    ELSE EmptyMap

RECURSIVE MergeLoop(_, _)
MergeLoop(hs, result_map) ==
    IF hs = <<>> THEN Values(result_map)
    ELSE LET h == Head(hs)
             key == KeyOf(h)
         IN IF HasKey(result_map, key) /\ ~OVERWRITE
            THEN MergeLoop(Tail(hs), result_map)
            ELSE MergeLoop(Tail(hs), DictSet(result_map, key, h))

\* Mutants of append_or_merge: the OVERWRITE test dropped; the copy of
\* existing_map dropped.
append_or_merge_always(hs, existing_map) == Values(DictFromList(hs, existing_map))
append_or_merge_fresh(hs, existing_map) == MergeLoop(hs, EmptyMap)

\* A merge that appends whatever the city returned
append_or_merge_concat(hs, existing_map) == Values(existing_map) \o hs

append_or_merge(hs, existing_map) == MergeLoop(hs, existing_map)

\* save_outputs(records): nothing is written when records is empty.
SavedJson(records) == IF records = <<>> THEN HOTEL_JSON ELSE json_dump(records)
SavedCsv(records) == IF records = <<>> THEN HOTEL_CSV ELSE csv_rows(records)

---------------------------------------------------------------------------
(* Page content: what the browser finds.  An element's text is a sequence  *)
(* of chunks, <<>> when the element is missing.                            *)

\* str.strip(): leading and trailing blanks go.
RECURSIVE LStrip(_)
LStrip(chunks) ==
    IF chunks # <<>> /\ Head(chunks) = " " THEN LStrip(Tail(chunks)) ELSE chunks

RECURSIVE RStrip(_)
RStrip(chunks) ==
    IF chunks # <<>> /\ chunks[Len(chunks)] = " "
    THEN RStrip(SubSeq(chunks, 1, Len(chunks) - 1)) ELSE chunks

Strip(chunks) == RStrip(LStrip(chunks))

\* safe_text(el) of an element that was found
safe_text(el) == Str(Strip(el))

cleanup_price(text) == IF ~Truthy(text) THEN None ELSE Str(Strip(text.v))

\* extract_currency_from_card: None when the card has no currency element
extract_currency_from_card(c) ==
    IF c.currency = <<>> THEN None ELSE safe_text(c.currency)

\* Path segments made of five letters or digits.
CodeSegments == {"miaep"}

NotCodeFallback == {"", "hoteldetail", "amenities"}

RECURSIVE FirstCodeSegment(_)
FirstCodeSegment(parts) ==
    IF parts = <<>> THEN <<>>
    ELSE IF Head(parts) \in CodeSegments THEN <<Head(parts)>>
    ELSE FirstCodeSegment(Tail(parts))

RECURSIVE LastMeaningfulSegment(_)
LastMeaningfulSegment(parts) ==
    IF parts = <<>> THEN <<>>
    ELSE IF parts[Len(parts)] \notin NotCodeFallback THEN <<parts[Len(parts)]>>
    ELSE LastMeaningfulSegment(SubSeq(parts, 1, Len(parts) - 1))

\* A url is the sequence of its path segments; <<>> is the empty url.
get_hotel_code_from_url(url) ==
    IF url = <<>> THEN None
    ELSE IF FirstCodeSegment(url) # <<>> THEN Str(FirstCodeSegment(url))
    ELSE IF LastMeaningfulSegment(url) # <<>> THEN Str(LastMeaningfulSegment(url))
    ELSE None

\* now_iso(): the clock differs from run to run
now_iso == Str(<<ToString(run)>>)

\* f"{price_value} {currency}".strip() if price_value else None
CardPrice(price_value, currency) ==
    IF Truthy(price_value)
    THEN Str(Strip(price_value.v \o <<" ">>
                   \o (IF currency.t = "none" THEN <<"None">> ELSE currency.v)))
    ELSE None

\* [label for each amenity element if label]
RECURSIVE NonEmpty(_)
NonEmpty(items) ==
    IF items = <<>> THEN <<>>
    ELSE (IF Head(items) = "" THEN <<>> ELSE <<Head(items)>>) \o NonEmpty(Tail(items))

\* The base record scrape_city prepares from a card (lines 285-303).
BaseRecord(c, city, now) ==
    LET card_amenities == NonEmpty(c.amenities)
        price_value == IF c.price = <<>> THEN None ELSE cleanup_price(safe_text(c.price))
        currency == extract_currency_from_card(c)
    IN [hotel_code          |-> get_hotel_code_from_url(c.href),
        hotel_name          |-> safe_text(c.title),
        address             |-> IF c.address = <<>> THEN None ELSE safe_text(c.address),
        phone               |-> None,
        rating              |-> IF c.rating = <<>> THEN None ELSE safe_text(c.rating),
        description         |-> None,
        card_price          |-> CardPrice(price_value, currency),
        overview_table_json |-> None,
        pets_json           |-> None,
        parking_json        |-> None,
        amenities_json      |-> IF card_amenities # <<>>
                                THEN json_dumps(List(card_amenities)) ELSE None,
        nearby_json         |-> None,
        airport_json        |-> None,
        is_pet_friendly     |-> None,
        last_updated        |-> now,
        _detail_url         |-> Str(c.href),
        _city               |-> Str(<<ToString(city)>>)]

\* The dict scrape_hotel_detail starts from (lines 331-341).
EmptyDetail ==
    [phone               |-> None,
     description         |-> None,
     overview_table_json |-> None,
     pets_json           |-> None,
     parking_json        |-> None,
     amenities_json      |-> None,
     nearby_json         |-> None,
     airport_json        |-> None,
     is_pet_friendly     |-> None]

---------------------------------------------------------------------------
(* The record extractor: the probes of scrape_hotel_detail on a detail     *)
(* page.  A text block is [s |-> its text, n |-> its length].              *)

DescMinLen == 120

\* max(texts, key=len): the first of the longest
RECURSIVE MaxByLen(_, _)
MaxByLen(texts, best) ==
    IF texts = <<>> THEN best
    ELSE MaxByLen(Tail(texts), IF Head(texts).n > best.n THEN Head(texts) ELSE best)

Qualifying(blocks) == SelectSeq(blocks, LAMBDA b : b.s # "" /\ b.n > DescMinLen)

RECURSIVE FirstMatchingGroup(_)
FirstMatchingGroup(groups) ==
    IF groups = <<>> THEN <<>>
    ELSE IF Qualifying(Head(groups)) # <<>> THEN Qualifying(Head(groups))
    ELSE FirstMatchingGroup(Tail(groups))

\* A description taken as the longest qualifying text of all groups together
_extract_description_across(page) ==
    LET texts == Qualifying(page.desc_blocks[1] \o page.desc_blocks[2] \o page.desc_blocks[3])
        best == MaxByLen(page.paragraphs, [s |-> "", n |-> 0])
    IN IF texts # <<>> THEN Str(<<MaxByLen(Tail(texts), Head(texts)).s>>)
       ELSE IF best.s # "" THEN Str(<<best.s>>)
       ELSE None

_extract_description_text(page) ==
    LET texts == FirstMatchingGroup(page.desc_blocks)
        best == MaxByLen(page.paragraphs, [s |-> "", n |-> 0])
    IN IF texts # <<>> THEN Str(<<MaxByLen(Tail(texts), Head(texts)).s>>)
       ELSE IF best.s # "" THEN Str(<<best.s>>)
       ELSE None

_extract_highlights_section(page) ==
    IF NonEmpty(page.highlights) # <<>> THEN List(NonEmpty(page.highlights)) ELSE None

\* A tel: link first, else the first phone-like run of the body text.
_extract_phone(tel, body_phone) ==
    IF NonEmpty(tel) # <<>> THEN Str(<<Head(NonEmpty(tel))>>)
    ELSE IF body_phone # <<>> THEN Str(body_phone)
    ELSE None

\* The sub-probes of the amenities page; each is None when it finds nothing.
_scrape_amenities_list_from_page(a) ==
    IF NonEmpty(a.amenities) # <<>> THEN List(NonEmpty(a.amenities)) ELSE None
_scrape_parking_from_page(a) ==
    IF a.parking # <<>> THEN Dict(<<"parking_info">> \o a.parking) ELSE None
_scrape_overview_table_from_page(a) ==
    IF a.overview # <<>> THEN Dict(a.overview) ELSE None
_scrape_nearby_from_page(a) == IF a.nearby # <<>> THEN List(a.nearby) ELSE None
_scrape_airport_from_page(a) == IF a.airport # <<>> THEN List(a.airport) ELSE None

NoData == [t |-> "none", d |-> [amenities |-> None, parking |-> None, overview |-> None,
                                nearby |-> None, airport |-> None, phone |-> None]]

\* _open_amenities_page_and_scrape: None without a link with an href, and None
\* when none of amenities, parking, overview, nearby, airport is truthy.
_open_amenities_page_and_scrape(page) ==
    IF page.amen_link # "ok" THEN NoData
    ELSE LET data == [amenities |-> _scrape_amenities_list_from_page(page.amen),
                      parking   |-> _scrape_parking_from_page(page.amen),
                      overview  |-> _scrape_overview_table_from_page(page.amen),
                      nearby    |-> _scrape_nearby_from_page(page.amen),
                      airport   |-> _scrape_airport_from_page(page.amen),
                      phone     |-> _extract_phone(page.amen.tel, page.amen.body_phone)]
         IN IF ~(\/ Truthy(data.amenities) \/ Truthy(data.parking) \/ Truthy(data.overview)
                 \/ Truthy(data.nearby) \/ Truthy(data.airport))
            THEN NoData
            ELSE [t |-> "dict", d |-> data]

\* _open_pet_policy_if_available: {"policy": text} when the link is there and
\* the section scan of the policy page finds a text, else None.
_open_pet_policy_if_available(page) ==
    IF page.pet_link # "ok" THEN None
    ELSE IF page.policy # <<>> THEN Dict(<<"policy">> \o page.policy)
    ELSE None

\* Texts that hold one of the pet keywords
DescPetTexts == {"Pet-friendly hotel by the beach"}
AmenityPetItems == {"Pets allowed"}

AnyIn(items, set) == \E i \in 1..Len(items) : items[i] \in set

\* The items of a JSON array text, as json.loads returns them
ArrayItems(s) == [i \in 1..((Len(s) - 1) \div 4) |-> s[4 * i - 1]]

\* An inference that finds no hotel pet-friendly
_infer_nothing(detail_dict) == Bool(FALSE)

_infer_pet_friendly(detail_dict) ==
    LET ams == detail_dict.amenities_json IN
    IF Truthy(detail_dict.pets_json) THEN Bool(TRUE)
    ELSE IF detail_dict.description.t = "str" /\ AnyIn(detail_dict.description.v, DescPetTexts)
         THEN Bool(TRUE)
    ELSE IF ams.t = "list" THEN Bool(AnyIn(ams.v, AmenityPetItems))
    ELSE IF ams.t = "str" /\ IsJsonArrayText(ams.v)
         THEN Bool(AnyIn(ArrayItems(ams.v), AmenityPetItems))
    ELSE Bool(FALSE)

\* The body of scrape_hotel_detail between opening the page and the cleanup
\* (lines 356-401).
ExtractDetail(page) ==
    LET out1 == [EmptyDetail EXCEPT !.description = _extract_description_text(page)]
        highlights == _extract_highlights_section(page)
        out2 == IF Truthy(highlights) THEN [out1 EXCEPT !.amenities_json = highlights] ELSE out1
        phone == _extract_phone(page.tel, page.body_phone)
        out3 == IF Truthy(phone) THEN [out2 EXCEPT !.phone = phone] ELSE out2
        add == _open_amenities_page_and_scrape(page)
        out4 == IF add.t = "none" THEN out3
                ELSE [out3 EXCEPT
                        !.amenities_json = IF Truthy(add.d.amenities) THEN add.d.amenities ELSE @,
                        !.parking_json = IF Truthy(add.d.parking) THEN add.d.parking ELSE @,
                        !.overview_table_json = IF Truthy(add.d.overview) THEN add.d.overview ELSE @,
                        !.nearby_json = IF Truthy(add.d.nearby) THEN add.d.nearby ELSE @,
                        !.airport_json = IF Truthy(add.d.airport) THEN add.d.airport ELSE @,
                        !.phone = IF Truthy(add.d.phone) /\ ~Truthy(@) THEN add.d.phone ELSE @]
        pets_data == _open_pet_policy_if_available(page)
    IN IF Truthy(pets_data)
       THEN [out4 EXCEPT !.pets_json = pets_data, !.is_pet_friendly = Bool(TRUE)]
       ELSE [out4 EXCEPT !.is_pet_friendly = _infer_pet_friendly(out4)]

---------------------------------------------------------------------------
(* The end of a card in scrape_city (lines 307-323) *)

\* hotel_record.update(detail)
Update(rec, detail) ==
    [k \in DOMAIN rec |-> IF k \in DOMAIN detail THEN detail[k] ELSE rec[k]]

\* Mutant of NormalizeJsonFields: the loop at lines 310-313 left out.
NormalizeSkipped(rec) == rec

\* *_json values that are neither None nor a str become their json.dumps text.
NormalizeJsonFields(rec) ==
    [k \in DOMAIN rec |->
        IF k \in JSON_KEYS /\ rec[k].t # "none" /\ rec[k].t # "str"
        THEN json_dumps(rec[k]) ELSE rec[k]]

\* Mutant of CoercePetFriendly: the coercion at lines 316-317 left out.
CoerceSkipped(rec) == rec

\* A bool is_pet_friendly becomes "true" or "false".
CoercePetFriendly(rec) ==
    IF rec.is_pet_friendly.t = "bool"
    THEN [rec EXCEPT !.is_pet_friendly =
              IF Truthy(@) THEN Str(<<"true">>) ELSE Str(<<"false">>)]
    ELSE rec

\* pop("_detail_url"), pop("_city")
RemoveHelperKeys(rec) == [k \in DOMAIN rec \ HELPER_KEYS |-> rec[k]]

FinishRecord(rec, detail) ==
    RemoveHelperKeys(CoercePetFriendly(NormalizeJsonFields(Update(rec, detail))))

---------------------------------------------------------------------------
(* The web site: the detail pages and the cards of the city pages *)

NoAmenitiesPage == [amenities |-> <<>>, parking |-> <<>>, overview |-> <<>>,
                    nearby |-> <<>>, airport |-> <<>>, tel |-> <<>>, body_phone |-> <<>>]

\* A detail page on which every probe finds something.
PageFull ==
    [desc_blocks |-> << <<[s |-> "Pet-friendly hotel by the beach", n |-> 200]>>, <<>>, <<>> >>,
     paragraphs  |-> <<[s |-> "Welcome", n |-> 7]>>,
     highlights  |-> <<"Pool">>,
     tel         |-> <<"555-0100">>,
     body_phone  |-> <<>>,
     amen_link   |-> "ok",
     amen        |-> [amenities |-> <<"WiFi", "Pets allowed">>,
                      parking   |-> <<"Valet parking">>,
                      overview  |-> <<"Check-in", "3 PM">>,
                      nearby    |-> <<"Beach 1 mi">>,
                      airport   |-> <<"MIA 8 mi">>,
                      tel       |-> <<>>,
                      body_phone |-> <<"555-0199">>],
     pet_link    |-> "ok",
     policy      |-> <<"Pets welcome">>]

\* A detail page on which no probe finds anything.
PageBare ==
    [desc_blocks |-> << <<>>, <<>>, <<>> >>,
     paragraphs  |-> <<>>,
     highlights  |-> <<>>,
     tel         |-> <<>>,
     body_phone  |-> <<>>,
     amen_link   |-> "none",
     amen        |-> NoAmenitiesPage,
     pet_link    |-> "none",
     policy      |-> <<>>]

CardX ==
    [title |-> <<"Hotel X">>, href |-> <<"hotels", "miaep", "hoteldetail">>,
     address |-> <<"1 Main St", " ">>, amenities |-> <<"Pool", "">>,
     price |-> <<"100">>, currency |-> <<"USD">>, rating |-> <<"4.5">>,
     page |-> PageFull]

\* Same hotel code as CardX under another name; no currency, address or rating.
CardY ==
    [title |-> <<" ", "Hotel Y">>, href |-> <<"hotels", "miaep", "hoteldetail">>,
     address |-> <<>>, amenities |-> <<"Spa">>,
     price |-> <<"80">>, currency |-> <<>>, rating |-> <<>>,
     page |-> PageBare]

\* A card whose title link has no href: no hotel code, no detail page.
CardNoUrl ==
    [title |-> <<"Hotel X">>, href |-> <<>>,
     address |-> <<>>, amenities |-> <<>>,
     price |-> <<>>, currency |-> <<>>, rating |-> <<>>,
     page |-> PageBare]

\* A card without a title link: find_element raises NoSuchElementException.
CardNoTitle == [CardNoUrl EXCEPT !.title = <<>>]

CardSet == {CardX, CardY, CardNoUrl, CardNoTitle}

NoCard == CardNoTitle
NoRecord == [k \in FieldSet |-> None]

---------------------------------------------------------------------------
(* Prior content of the output files *)

\* A record as an earlier run wrote it.
OldRecord(c) ==
    RemoveHelperKeys(CoercePetFriendly(NormalizeJsonFields(
        Update(BaseRecord(c, 1, Str(<<"0">>)), ExtractDetail(c.page)))))

\* An array element that is no object, such as a number.
BadElement == [obj |-> FALSE, d |-> JsonObject(NoRecord)]

PriorElements ==
    {[obj |-> TRUE, d |-> JsonObject(OldRecord(CardX))],
     BadElement}

PriorArrays ==
    UNION {[1..n -> PriorElements] : n \in 0..MaxPrior}

PriorJson ==
    {Absent,
     [kind |-> "garbage", items |-> <<>>],     \* not JSON at all
     [kind |-> "scalar", items |-> <<>>]}      \* a document that is no array
    \cup {[kind |-> "array", items |-> a] : a \in PriorArrays}

---------------------------------------------------------------------------
(* The city list file *)

\* load_or_create_city_csv, lines 745-766.  The file as DictWriter leaves it:
\* the header line and one row per city.
CITY_FIELDS == <<"city_name", "city_url">>
NoCityFile == [kind |-> "absent", header |-> <<>>, items |-> <<>>]
CityFile(rows) == [kind |-> "csv", header |-> CITY_FIELDS, items |-> rows]

\* A file that is never taken as the city list
HasRowsNever(f) == FALSE

\* Lines 746-750: the file exists and DictReader finds at least one row
HasRows(f) == f.kind = "csv" /\ f.items # <<>>

---------------------------------------------------------------------------
(* The browser *)

NoHandle == 0

Handles == 1..(MaxFaults + 4)

\* A window handle the browser has not handed out among the ones still known.
FreshHandle == CHOOSE h \in Handles :
    /\ h \notin tabs \cup {focus, list_tab}
    /\ \A g \in Handles : g \notin tabs \cup {focus, list_tab} => h <= g

\* Whether the driver may raise one more WebDriverException in this run.
MayFault == faults < MaxFaults

---------------------------------------------------------------------------
(* State *)

cfgv == <<OVERWRITE, RUN_ONLY_ONE_CITY>>
cityv == <<CITY_CSV, enum_calls, csv_writes>>
navv == <<hist, nav>>
outv == <<HOTEL_JSON, HOTEL_CSV>>
mainv == <<run, cities, ci, all_hotels>>
browserv == <<tabs, focus, main_handle, list_tab>>
mergev == <<merge_in, json_before, log>>
prevv == <<prev_log, prev_json>>

NoNav == [clicks |-> 0, backs |-> 0]

\* merge_in: what the last merge started from (all, new), whether scrape_city
\* raised for the city, and the records it had built when it did (lost).
NoMerge == [all |-> <<>>, new |-> <<>>, raised |-> FALSE, lost |-> <<>>]

\* scrape_city raised with the records hs built so far.
Raised(hs) == [NoMerge EXCEPT !.raised = TRUE, !.lost = hs]

KeysOf(hs) == [i \in 1..Len(hs) |-> KeyOf(hs[i])]

Init ==
    /\ OVERWRITE \in BOOLEAN
    /\ RUN_ONLY_ONE_CITY \in BOOLEAN
    /\ CITY_CSV \in {NoCityFile, CityFile([i \in 1..MaxCities |-> i])}
    /\ enum_calls = 0
    /\ csv_writes = 0
    /\ HOTEL_JSON \in PriorJson
    /\ HOTEL_CSV = Absent
    /\ run = 1
    /\ pc = "start"
    /\ cities = <<>>
    /\ ci = 1
    /\ all_hotels = <<>>
    /\ hotels = <<>>
    /\ ncards = 0
    /\ idx = 1
    /\ card = NoCard
    /\ hotel_record = NoRecord
    /\ out = EmptyDetail
    /\ tabs = {}
    /\ focus = NoHandle
    /\ main_handle = NoHandle
    /\ list_tab = NoHandle
    /\ faults = 0
    /\ hist = <<>>
    /\ nav = NoNav
    /\ merge_in = NoMerge
    /\ json_before = Absent
    /\ log = <<>>
    /\ prev_log = <<>>
    /\ prev_json = Absent

---------------------------------------------------------------------------
(* main *)

\* cities[:1] when RUN_ONLY_ONE_CITY
FirstOnly(cs) == IF RUN_ONLY_ONE_CITY /\ Len(cs) > 1 THEN SubSeq(cs, 1, 1) ELSE cs

\* main, lines 817-825: load_or_create_city_csv, load_existing_output, and the
\* hotel scraper's browser starts with one window.  When scrape_city_urls
\* raises, nothing takes the exception (try/finally, lines 754-757) and the
\* program ends.
MainStart ==
    /\ pc = "start"
    /\ \/ /\ \/ /\ HasRows(CITY_CSV)
                /\ cities' = FirstOnly(CITY_CSV.items)
                /\ UNCHANGED cityv
             \/ /\ ~HasRows(CITY_CSV)
                /\ enum_calls' = enum_calls + 1
                /\ csv_writes' = csv_writes + 1
                /\ \E n \in 0..MaxCities :
                      LET found == [i \in 1..n |-> i] IN
                      /\ CITY_CSV' = CityFile(found)
                      /\ cities' = FirstOnly(found)
          /\ all_hotels' = Values(load_existing_output)
          /\ tabs' = {1}
          /\ focus' = 1
          /\ ci' = 1
          /\ pc' = "city"
       \/ /\ ~HasRows(CITY_CSV)
          /\ enum_calls' = enum_calls + 1
          /\ pc' = "aborted"
          /\ UNCHANGED <<CITY_CSV, csv_writes, cities, all_hotels, tabs, focus, ci>>
    /\ UNCHANGED <<cfgv, navv, outv, run, hotels, ncards, idx, card, hotel_record,
                   out, main_handle, list_tab, faults, mergev, prevv>>

\* A main that keeps what scrape_city had built when it raised.
CityFailedKeepsHotels ==
    /\ hotels' = hotels
    /\ pc' = "merge"
    /\ ncards' = 0
    /\ idx' = 1

\* scrape_city raised (or main's call of it did): main sets hotels = [].
CityFailed ==
    /\ hotels' = <<>>
    /\ pc' = "merge"
    /\ ncards' = 0
    /\ idx' = 1

\* main, lines 828-834, and scrape_city, lines 232-242: the city page is loaded
\* in the current window and its cards are listed.
ScrapeCityOpen ==
    /\ pc = "city"
    /\ ci <= Len(cities)
    /\ json_before' = Absent
    /\ \/ /\ focus \notin tabs          \* the current window is gone: get() raises
          /\ CityFailed
          /\ merge_in' = Raised(<<>>)
          /\ UNCHANGED <<list_tab, faults>>
       \/ /\ focus \in tabs
          /\ MayFault                   \* get() raises
          /\ faults' = faults + 1
          /\ CityFailed
          /\ merge_in' = Raised(<<>>)
          /\ UNCHANGED list_tab
       \/ /\ focus \in tabs
          /\ merge_in' = NoMerge
          /\ list_tab' = focus
          /\ \E n \in 0..MaxCards : ncards' = n
          /\ idx' = 1
          /\ hotels' = <<>>
          /\ pc' = "card"
          /\ UNCHANGED faults
    /\ UNCHANGED <<cfgv, cityv, navv, outv, mainv, card, hotel_record, out,
                   tabs, focus, main_handle, log, prevv>>

---------------------------------------------------------------------------
(* scrape_city: the loop over the cards *)

\* `continue` of the except clause at line 325: the card leaves no record.
SkipCard ==
    /\ idx' = idx + 1
    /\ pc' = "card"
    /\ card' = NoCard
    /\ hotel_record' = NoRecord
    /\ out' = EmptyDetail
    /\ main_handle' = NoHandle
    /\ UNCHANGED hotels

\* Lines 244-303: the card's fields are read and the base record prepared.
CardBegin ==
    /\ pc = "card"
    /\ idx <= ncards
    /\ \/ /\ focus # list_tab \/ list_tab \notin tabs
          \* the card element belongs to another window: every access raises
          /\ SkipCard
          /\ UNCHANGED faults
       \/ /\ focus = list_tab /\ list_tab \in tabs
          /\ MayFault               \* StaleElementReferenceException and the like
          /\ faults' = faults + 1
          /\ SkipCard
       \/ /\ focus = list_tab /\ list_tab \in tabs
          /\ \E c \in CardSet :
                IF c.title = <<>>
                THEN SkipCard       \* NoSuchElementException for the title link
                ELSE /\ card' = c
                     /\ hotel_record' = BaseRecord(c, cities[ci], now_iso)
                     /\ pc' = "detail"
                     /\ UNCHANGED <<idx, out, main_handle, hotels>>
          /\ UNCHANGED faults
    /\ UNCHANGED <<cfgv, cityv, navv, outv, mainv, ncards, tabs, focus, list_tab,
                   mergev, prevv>>

\* scrape_hotel_detail, lines 330-347: nothing to visit without a url; else
\* `main` is remembered and a new tab is opened and switched to.
DetailEnter ==
    /\ pc = "detail"
    /\ \/ /\ card.href = <<>>
          /\ out' = EmptyDetail
          /\ pc' = "finish"
          /\ UNCHANGED <<idx, card, hotel_record, hotels, tabs, focus, main_handle, faults>>
       \/ /\ card.href # <<>>
          /\ main_handle' = focus
          /\ tabs' = tabs \cup {FreshHandle}
          /\ focus' = FreshHandle
          /\ out' = EmptyDetail
          /\ pc' = "navigate"
          /\ UNCHANGED <<idx, card, hotel_record, hotels, faults>>
       \/ /\ card.href # <<>>
          /\ MayFault               \* the new-window command raises
          /\ faults' = faults + 1
          /\ SkipCard
          /\ UNCHANGED <<tabs, focus>>
       \/ /\ card.href # <<>>
          /\ MayFault               \* the tab is created, the switch to it raises
          /\ faults' = faults + 1
          /\ tabs' = tabs \cup {FreshHandle}
          /\ SkipCard
          /\ UNCHANGED focus
    /\ UNCHANGED <<cfgv, cityv, navv, outv, mainv, ncards, list_tab, mergev, prevv>>

\* Lines 348-354: the detail page is loaded; when that raises, the tab is
\* closed, the origin tab selected and the empty dict returned.  The handler's
\* own close() and switch_to.window() are not guarded.
DetailNavigate ==
    /\ pc = "navigate"
    /\ \/ /\ pc' = "extract"
          /\ UNCHANGED <<idx, card, hotel_record, out, hotels, tabs, focus,
                         main_handle, faults>>
       \/ /\ tabs' = tabs \ {focus}
          /\ focus' = main_handle
          /\ pc' = "finish"
          /\ UNCHANGED <<idx, card, hotel_record, out, hotels, main_handle, faults>>
       \/ /\ MayFault               \* close() raises in the handler
          /\ faults' = faults + 1
          /\ SkipCard
          /\ UNCHANGED <<tabs, focus>>
       \/ /\ MayFault               \* switch_to.window(main) raises in the handler
          /\ faults' = faults + 1
          /\ tabs' = tabs \ {focus}
          /\ SkipCard
          /\ UNCHANGED focus
    /\ UNCHANGED <<cfgv, cityv, navv, outv, mainv, ncards, list_tab, mergev, prevv>>

\* Lines 356-401: the probes fill the dict; each swallows its own faults.
DetailExtract ==
    /\ pc = "extract"
    /\ out' = ExtractDetail(card.page)
    /\ pc' = "cleanup"
    /\ UNCHANGED <<cfgv, cityv, navv, outv, mainv, ncards, idx, card, hotel_record,
                   hotels, browserv, faults, mergev, prevv>>

\* Lines 403-409, the finally clause: close(), switch_to.window(main), with
\* any exception of the two swallowed; then `out` is returned.
DetailCleanup ==
    /\ pc = "cleanup"
    /\ \/ /\ tabs' = tabs \ {focus}
          /\ focus' = main_handle
          /\ UNCHANGED faults
       \/ /\ MayFault               \* close() raises: the switch is not reached
          /\ faults' = faults + 1
          /\ UNCHANGED <<tabs, focus>>
       \/ /\ MayFault               \* switch_to.window(main) raises
          /\ faults' = faults + 1
          /\ tabs' = tabs \ {focus}
          /\ UNCHANGED focus
    /\ pc' = "finish"
    /\ UNCHANGED <<cfgv, cityv, navv, outv, mainv, ncards, idx, card, hotel_record,
                   out, hotels, main_handle, list_tab, mergev, prevv>>

\* Lines 307-323: update with the detail dict, normalize, coerce, drop the
\* helper keys, append.
CardFinish ==
    /\ pc = "finish"
    /\ hotels' = Append(hotels, FinishRecord(hotel_record, out))
    /\ idx' = idx + 1
    /\ pc' = "card"
    /\ card' = NoCard
    /\ hotel_record' = NoRecord
    /\ out' = EmptyDetail
    /\ main_handle' = NoHandle
    /\ UNCHANGED <<cfgv, cityv, navv, outv, mainv, ncards, tabs, focus, list_tab,
                   faults, mergev, prevv>>

\* An exception that is no WebDriverException (the HTTP client losing the
\* driver, say) is raised while a card is read: the except clause at line 325
\* does not take it, scrape_city raises with the records built so far, and
\* main's except Exception (lines 832-834) sets hotels = [].
CityRaise ==
    /\ pc = "card"
    /\ idx <= ncards
    /\ MayFault
    /\ faults' = faults + 1
    /\ CityFailed
    /\ merge_in' = Raised(hotels)
    /\ UNCHANGED <<cfgv, cityv, navv, outv, mainv, card, hotel_record, out,
                   browserv, json_before, log, prevv>>

\* Line 328: return hotels
ScrapeCityReturn ==
    /\ pc = "card"
    /\ idx > ncards
    /\ pc' = "merge"
    /\ UNCHANGED <<cfgv, cityv, navv, outv, mainv, ncards, idx, card, hotel_record,
                   out, hotels, browserv, faults, mergev, prevv>>

---------------------------------------------------------------------------
(* main: merge and save after every city, the end of the run *)

\* Lines 836-839
CityMergeSave ==
    /\ pc = "merge"
    /\ LET merged == append_or_merge(hotels, DictFromList(all_hotels, EmptyMap)) IN
        /\ all_hotels' = merged
        /\ HOTEL_JSON' = SavedJson(merged)
        /\ HOTEL_CSV' = SavedCsv(merged)
    /\ merge_in' = [merge_in EXCEPT !.all = all_hotels, !.new = hotels]
    /\ json_before' = HOTEL_JSON
    /\ log' = Append(log, KeysOf(hotels))
    /\ ci' = ci + 1
    /\ pc' = "city"
    /\ UNCHANGED <<cfgv, cityv, navv, run, cities, hotels, ncards, idx, card,
                   hotel_record, out, browserv, faults, prevv>>

\* Lines 841-846: the loop is over, quit() ends the browser.
MainFinish ==
    /\ pc = "city"
    /\ ci > Len(cities)
    /\ tabs' = {}
    /\ focus' = NoHandle
    /\ list_tab' = NoHandle
    /\ pc' = "done"
    /\ merge_in' = NoMerge
    /\ json_before' = Absent
    /\ UNCHANGED <<cfgv, cityv, navv, outv, mainv, hotels, ncards, idx, card,
                   hotel_record, out, main_handle, faults, log, prevv>>

\* The program is started again: a new process over the files the last left.
NextRun ==
    /\ pc = "done"
    /\ run < MaxRuns
    /\ run' = run + 1
    /\ pc' = "start"
    /\ prev_log' = log
    /\ prev_json' = HOTEL_JSON
    /\ log' = <<>>
    /\ cities' = <<>>
    /\ ci' = 1
    /\ all_hotels' = <<>>
    /\ hotels' = <<>>
    /\ faults' = 0
    /\ enum_calls' = 0
    /\ csv_writes' = 0
    /\ UNCHANGED <<cfgv, CITY_CSV, navv, outv, ncards, idx, card, hotel_record,
                   out, browserv, merge_in, json_before>>

\* scrape_city as one step: what it returns for a city page whose cards are
\* visits[1..n], each visit being a card and how its processing went: "ok",
\* "navfail" (the detail page did not load) or "fault" (an exception reached
\* the except clause at line 325, so the card is skipped).
Outcomes == {"ok", "navfail", "fault"}

RECURSIVE scrape_city(_, _, _)
scrape_city(visits, city, now) ==
    IF visits = <<>> THEN <<>>
    ELSE LET c == Head(visits).card
             how == Head(visits).how
             detail == IF c.href = <<>> \/ how = "navfail"
                       THEN EmptyDetail ELSE ExtractDetail(c.page)
         IN (IF c.title = <<>> \/ how = "fault"
             THEN <<>>
             ELSE <<FinishRecord(BaseRecord(c, city, now), detail)>>)
            \o scrape_city(Tail(visits), city, now)

\* A card without a title link or without a url has one way to go.
Visits == {v \in [card : CardSet, how : Outcomes] :
              /\ v.card.title = <<>> => v.how = "fault"
              /\ v.card.href = <<>> => v.how # "navfail"}

\* From the second run on the site lists, city by city, the hotels it listed in
\* the run before (their content may differ).
SameSite(hs) == run > 1 => ci <= Len(prev_log) /\ KeysOf(hs) = prev_log[ci]

\* main, lines 828-834, with the whole of scrape_city: it returns the records
\* of the city's cards, or raises and main takes the city as empty.
ScrapeCity ==
    /\ pc = "city"
    /\ ci <= Len(cities)
    /\ \/ /\ hotels' = <<>>         \* scrape_city raised
          /\ merge_in' = Raised(<<>>)
       \/ /\ \E n \in 0..MaxCards : \E visits \in [1..n -> Visits] :
                hotels' = scrape_city(visits, cities[ci], now_iso)
          /\ merge_in' = NoMerge
    /\ SameSite(hotels')
    /\ pc' = "merge"
    /\ json_before' = Absent
    /\ UNCHANGED <<cfgv, cityv, navv, outv, mainv, ncards, idx, card, hotel_record,
                   out, browserv, faults, log, prevv>>

\* The pipeline over several runs, with scrape_city as one step.
Next ==
    \/ MainStart
    \/ ScrapeCity
    \/ CityMergeSave
    \/ MainFinish
    \/ NextRun

Spec == Init /\ [][Next]_vars

\* One run with scrape_city and scrape_hotel_detail step by step, driving the
\* browser.
NextScrape ==
    \/ MainStart
    \/ ScrapeCityOpen
    \/ CardBegin
    \/ CityRaise
    \/ DetailEnter
    \/ DetailNavigate
    \/ DetailExtract
    \/ DetailCleanup
    \/ CardFinish
    \/ ScrapeCityReturn
    \/ CityMergeSave
    \/ MainFinish

\* No prior output: every persisted record comes from scrape_city.
InitScrape == Init /\ HOTEL_JSON = Absent

SpecScrape == InitScrape /\ [][NextScrape]_vars

---------------------------------------------------------------------------
(* scrape_hotel_detail step by step on one detail page: the probes of the  *)
(* page, and the two same-tab visits (amenities page, pet policy page).    *)

Short == [s |-> "A quiet hotel near the old town", n |-> 130]
Long == [s |-> "Pet-friendly hotel by the beach", n |-> 200]
TooShort == [s |-> "Pet-friendly hotel by the beach", n |-> 120]

\* What the three selector groups of _extract_description_text may find
DescChoices ==
    {<< <<>>, <<>>, <<>> >>,
     << <<TooShort>>, <<>>, <<>> >>,
     << <<Short>>, <<Long>>, <<>> >>,
     << <<>>, <<Short, Long>>, <<Long>> >>}

ParagraphChoices == {<<>>, <<[s |-> "Welcome", n |-> 7], [s |-> "Book now", n |-> 8]>>}

HighlightChoices == {<<>>, <<"Pool">>, <<"Pets allowed">>}

\* An amenities page on which only a phone number is found
PhoneOnlyPage == [NoAmenitiesPage EXCEPT !.body_phone = <<"555-0199">>]

\* The "view all amenities" link (none, one without href, one that works) and
\* the page behind it
AmenChoices ==
    {[link |-> "none", page |-> NoAmenitiesPage],
     [link |-> "nohref", page |-> NoAmenitiesPage],
     [link |-> "ok", page |-> NoAmenitiesPage],
     [link |-> "ok", page |-> PhoneOnlyPage],
     [link |-> "ok", page |-> PageFull.amen]}

\* The "view pet policy" link and the text the section scan finds behind it
PetChoices ==
    {[link |-> "none", policy |-> <<>>],
     [link |-> "nohref", policy |-> <<>>],
     [link |-> "ok", policy |-> <<>>],
     [link |-> "ok", policy |-> <<"Pets welcome">>]}

Pages ==
    {[desc_blocks |-> d, paragraphs |-> p, highlights |-> h,
      tel |-> <<>>, body_phone |-> <<>>,
      amen_link |-> a.link, amen |-> a.page,
      pet_link |-> pt.link, policy |-> pt.policy] :
        d \in DescChoices, p \in ParagraphChoices, h \in HighlightChoices,
        a \in AmenChoices, pt \in PetChoices}
    \cup {PageFull, PageBare}

\* driver.back(): one entry back in the tab's session history, if there is one
Back(h) == IF Len(h) > 1 THEN SubSeq(h, 1, Len(h) - 1) ELSE h

\* The page the probes read
Current == hist[Len(hist)]

Clicked == [nav EXCEPT !.clicks = @ + 1]
WentBack == [nav EXCEPT !.backs = @ + 1]

\* The detail page has just been loaded in the new tab (line 349).  Whether the
\* tab's first blank page stays in its session history is the browser's choice.
InitDetail ==
    /\ OVERWRITE = FALSE
    /\ RUN_ONLY_ONE_CITY = TRUE
    /\ CITY_CSV = CityFile(<<1>>)
    /\ enum_calls = 0
    /\ csv_writes = 0
    /\ HOTEL_JSON = Absent
    /\ HOTEL_CSV = Absent
    /\ run = 1
    /\ pc = "d_start"
    /\ cities = <<1>>
    /\ ci = 1
    /\ all_hotels = <<>>
    /\ hotels = <<>>
    /\ ncards = 1
    /\ idx = 1
    /\ \E pg \in Pages : card = [CardX EXCEPT !.page = pg]
    /\ hotel_record = BaseRecord(card, 1, now_iso)
    /\ out = EmptyDetail
    /\ tabs = {1, 2}
    /\ focus = 2
    /\ main_handle = 1
    /\ list_tab = 1
    /\ faults = 0
    /\ hist \in {<<"detail">>, <<"blank", "detail">>}
    /\ nav = NoNav
    /\ merge_in = NoMerge
    /\ json_before = Absent
    /\ log = <<>>
    /\ prev_log = <<>>
    /\ prev_json = Absent

\* What the steps of scrape_hotel_detail leave alone
detailv == <<cfgv, cityv, outv, mainv, hotels, ncards, idx, card, hotel_record,
             browserv, mergev, prevv>>

\* Lines 358-373: description, highlights, phone of the detail page
DetailDescribe ==
    /\ pc = "d_start"
    /\ LET page == card.page
           out1 == [out EXCEPT !.description = _extract_description_text(page)]
           highlights == _extract_highlights_section(page)
           out2 == IF Truthy(highlights) THEN [out1 EXCEPT !.amenities_json = highlights]
                   ELSE out1
           phone == _extract_phone(page.tel, page.body_phone)
       IN out' = IF Truthy(phone) THEN [out2 EXCEPT !.phone = phone] ELSE out2
    /\ pc' = "d_amen"
    /\ UNCHANGED <<detailv, faults, navv>>

\* Lines 376-390: what scrape_hotel_detail takes from the amenities data
TakeAmenities(o, add) ==
    IF add.t = "none" THEN o
    ELSE [o EXCEPT
            !.amenities_json = IF Truthy(add.d.amenities) THEN add.d.amenities ELSE @,
            !.parking_json = IF Truthy(add.d.parking) THEN add.d.parking ELSE @,
            !.overview_table_json = IF Truthy(add.d.overview) THEN add.d.overview ELSE @,
            !.nearby_json = IF Truthy(add.d.nearby) THEN add.d.nearby ELSE @,
            !.airport_json = IF Truthy(add.d.airport) THEN add.d.airport ELSE @,
            !.phone = IF Truthy(add.d.phone) /\ ~Truthy(@) THEN add.d.phone ELSE @]

\* Lines 392-399: what scrape_hotel_detail takes from the pet policy data
TakePets(o, pets_data) ==
    IF Truthy(pets_data)
    THEN [o EXCEPT !.pets_json = pets_data, !.is_pet_friendly = Bool(TRUE)]
    ELSE [o EXCEPT !.is_pet_friendly = _infer_pet_friendly(o)]

\* _open_amenities_page_and_scrape, lines 505-527: the link is looked up and
\* clicked.  A fault before the click goes to the handler (lines 553-559),
\* which navigates back.
AmenOpen ==
    /\ pc = "d_amen"
    /\ \/ /\ Current # "detail" \/ card.page.amen_link # "ok"
          /\ pc' = "d_pet"          \* no link, or no href: return None
          /\ UNCHANGED <<out, faults, navv>>
       \/ /\ MayFault               \* find_elements, get_attribute or the scroll raises
          /\ faults' = faults + 1
          /\ hist' = Back(hist)
          /\ nav' = WentBack
          /\ pc' = "d_pet"
          /\ UNCHANGED out
       \/ /\ Current = "detail" /\ card.page.amen_link = "ok"
          /\ hist' = Append(hist, "amenities")
          /\ nav' = Clicked
          /\ pc' = "d_amen_page"
          /\ UNCHANGED <<out, faults>>
    /\ UNCHANGED detailv

\* Lines 529-551: the sub-probes read the amenities page, back() returns to the
\* detail page, and the data is returned unless amenities, parking, overview,
\* nearby and airport are all empty.
AmenScrape ==
    /\ pc = "d_amen_page"
    /\ \/ /\ out' = TakeAmenities(out, _open_amenities_page_and_scrape(card.page))
          /\ UNCHANGED faults
       \/ /\ MayFault               \* the wait for the page raises: the handler goes back
          /\ faults' = faults + 1
          /\ UNCHANGED out
    /\ hist' = Back(hist)
    /\ nav' = WentBack
    /\ pc' = "d_pet"
    /\ UNCHANGED detailv

\* _open_pet_policy_if_available, lines 672-692, as for the amenities link
PetOpen ==
    /\ pc = "d_pet"
    /\ \/ /\ Current # "detail" \/ card.page.pet_link # "ok"
          /\ out' = TakePets(out, None)
          /\ pc' = "d_done"
          /\ UNCHANGED <<faults, navv>>
       \/ /\ MayFault
          /\ faults' = faults + 1
          /\ hist' = Back(hist)
          /\ nav' = WentBack
          /\ out' = TakePets(out, None)
          /\ pc' = "d_done"
       \/ /\ Current = "detail" /\ card.page.pet_link = "ok"
          /\ hist' = Append(hist, "policy")
          /\ nav' = Clicked
          /\ pc' = "d_pet_page"
          /\ UNCHANGED <<out, faults>>
    /\ UNCHANGED detailv

\* Lines 694-707: the section scan of the policy page, back(), and the policy
\* is returned when the scan found a text.
PetScrape ==
    /\ pc = "d_pet_page"
    /\ \/ /\ out' = TakePets(out, _open_pet_policy_if_available(card.page))
          /\ UNCHANGED faults
       \/ /\ MayFault
          /\ faults' = faults + 1
          /\ out' = TakePets(out, None)
    /\ hist' = Back(hist)
    /\ nav' = WentBack
    /\ pc' = "d_done"
    /\ UNCHANGED detailv

\* Lines 401-409 and 307-323: the dict is returned, the tab closed, and
\* scrape_city finishes the card's record.
DetailEmit ==
    /\ pc = "d_done"
    /\ hotels' = Append(hotels, FinishRecord(hotel_record, out))
    /\ tabs' = tabs \ {focus}
    /\ focus' = main_handle
    /\ hist' = <<>>
    /\ idx' = idx + 1
    /\ pc' = "d_emitted"
    /\ UNCHANGED <<cfgv, cityv, outv, mainv, ncards, card, hotel_record, out,
                   main_handle, list_tab, faults, nav, mergev, prevv>>

NextDetail ==
    \/ DetailDescribe
    \/ AmenOpen
    \/ AmenScrape
    \/ PetOpen
    \/ PetScrape
    \/ DetailEmit

SpecDetail == InitDetail /\ [][NextDetail]_vars

---------------------------------------------------------------------------
(* Properties *)

\* main has just merged and saved a city: merge_in and json_before hold what
\* the merge and the save started from.
JustMerged == pc = "city" /\ ci > 1

\* The records of an output document, as Python dicts
FileRecords(f) == [i \in 1..Len(f.items) |-> PyDict(f.items[i].d)]

DistinctKeys(recs) ==
    \A i, j \in 1..Len(recs) : KeyOf(recs[i]) = KeyOf(recs[j]) => i = j

\* An output as save_outputs leaves it: no file yet, or an array of objects
\* with distinct identity keys.
PipelineWritten(f) ==
    \/ f.kind = "absent"
    \/ /\ f.kind = "array"
       /\ \A i \in 1..Len(f.items) : f.items[i].obj
       /\ DistinctKeys(FileRecords(f))

IsPrefix(a, b) == Len(a) <= Len(b) /\ SubSeq(b, 1, Len(a)) = a

\* C1: when the merged set held exactly one record E and the city returned
\* exactly one record N with E's identity key (hotel_code, hotel_name), the
\* merge yields exactly E with OVERWRITE off and exactly N with OVERWRITE on.
C1_MergeSingleKey ==
    (/\ JustMerged
     /\ Len(merge_in.all) = 1
     /\ Len(merge_in.new) = 1
     /\ KeyOf(merge_in.all[1]) = KeyOf(merge_in.new[1]))
    => all_hotels = IF OVERWRITE THEN merge_in.new ELSE merge_in.all

\* C1 happens: E and N share the key, differ in content, and N replaced E.
C1_Witness ==
    /\ JustMerged
    /\ OVERWRITE
    /\ Len(merge_in.all) = 1
    /\ Len(merge_in.new) = 1
    /\ KeyOf(merge_in.all[1]) = KeyOf(merge_in.new[1])
    /\ merge_in.all[1] # merge_in.new[1]
    /\ all_hotels = merge_in.new

\* C2: with OVERWRITE off, a merge and save over an output the pipeline wrote
\* keeps every record of that output, unchanged and in the same order, at the
\* front of the new output; what follows are records the city returned under
\* keys the output did not have; every key the city returned is in the output;
\* the number of persisted records does not decrease.
C2_ExistingKept ==
    (JustMerged /\ ~OVERWRITE /\ PipelineWritten(json_before))
    => LET before == FileRecords(json_before)
           after == FileRecords(HOTEL_JSON)
       IN /\ IsPrefix(before, after)
          /\ Len(after) >= Len(before)
          /\ \A i \in (Len(before) + 1)..Len(after) :
                /\ \E j \in 1..Len(merge_in.new) : after[i] = merge_in.new[j]
                /\ \A j \in 1..Len(before) : KeyOf(before[j]) # KeyOf(after[i])
          /\ \A j \in 1..Len(merge_in.new) :
                \E i \in 1..Len(after) : KeyOf(after[i]) = KeyOf(merge_in.new[j])
          /\ DistinctKeys(after)

\* C2 happens: the city returned a changed record under a persisted key and a
\* record under a new key; the output grew behind the old record.
C2_Witness ==
    /\ JustMerged /\ ~OVERWRITE /\ PipelineWritten(json_before)
    /\ Len(FileRecords(json_before)) >= 1
    /\ Len(FileRecords(HOTEL_JSON)) > Len(FileRecords(json_before))
    /\ \E j \in 1..Len(merge_in.new) :
          /\ KeyOf(merge_in.new[j]) = KeyOf(FileRecords(json_before)[1])
          /\ merge_in.new[j] # FileRecords(json_before)[1]

\* C3: with OVERWRITE off, a run over the same cities in which every city
\* returns the hotels it returned in the run before ends with the persisted
\* output it started from: same number of records, same content.
C3_Idempotent ==
    (pc = "done" /\ run > 1 /\ ~OVERWRITE /\ log = prev_log)
    => /\ HOTEL_JSON = prev_json
       /\ Len(HOTEL_JSON.items) = Len(prev_json.items)

\* C3 happens: the second run scraped again hotels that are in the output.
C3_Witness ==
    /\ pc = "done" /\ run > 1 /\ ~OVERWRITE /\ log = prev_log
    /\ Len(log) = MaxCities
    /\ \A i \in 1..Len(log) : log[i] # <<>>
    /\ Len(HOTEL_JSON.items) >= 2
    /\ HOTEL_JSON = prev_json

\* C4: after every city iteration of main both outputs have been rewritten
\* and hold exactly the merged records main has in memory.
C4_OutputsEqualMemory ==
    JustMerged =>
        /\ HOTEL_JSON = json_dump(all_hotels)
        /\ HOTEL_CSV = csv_rows(all_hotels)

\* scrape_hotel_detail returned through its navigation-failure handler: the
\* card has a url and the dict is as it started (a page that loaded leaves a
\* bool in is_pet_friendly).
NavigationFailed == pc = "finish" /\ card.href # <<>> /\ out = EmptyDetail

DetailOnlyKeys == {"phone", "description", "overview_table_json", "pets_json",
                   "parking_json", "nearby_json", "airport_json"}

CardKeys == {"hotel_name", "address", "card_price", "rating", "amenities_json"}

\* C5: a card whose detail page fails to load still yields a record; it holds
\* the name, address, price, rating and amenities read from the card, and of
\* the detail fields only the detail-only ones are null.
C5_CardFieldsKept ==
    [][NavigationFailed =>
          /\ Len(hotels') = Len(hotels) + 1
          /\ LET r == hotels'[Len(hotels')] IN
                /\ \A k \in CardKeys : r[k] = hotel_record[k]
                /\ \A k \in DetailOnlyKeys : r[k] = None]_vars

\* C6: at most two browser tabs are open in every state of a run.
C6_AtMostTwoTabs == Cardinality(tabs) <= 2

\* C7: whenever scrape_hotel_detail hands control back to scrape_city, by a
\* return or by an exception, after it opened a detail tab, that tab is closed
\* and the browser is on the origin tab.
C7_TabClosedOnExit ==
    [][(pc \in {"navigate", "cleanup"} /\ pc' \in {"finish", "card"})
          => (focus \notin tabs' /\ focus' = main_handle /\ focus' \in tabs')]_vars

IsNullOrJsonString(x) == x.t = "none" \/ (x.t = "str" /\ IsJsonText(x.v))

\* C8: in every record scrape_city has emitted, and in every record persisted
\* from them, each of the six *_json fields is null or a string that parses
\* as JSON.
C8_JsonFieldsSerialized ==
    /\ \A i \in 1..Len(hotels) : \A k \in JSON_KEYS : IsNullOrJsonString(hotels[i][k])
    /\ HOTEL_JSON.kind = "array" =>
          \A i \in 1..Len(HOTEL_JSON.items) : \A k \in JSON_KEYS :
             LET j == HOTEL_JSON.items[i].d[k] IN
             j.t = "null" \/ (j.t = "string" /\ IsJsonText(j.v))

\* C8 happens: a persisted record holds the text of a list and of a dict.
C8_Witness ==
    /\ HOTEL_JSON.kind = "array"
    /\ \E i \in 1..Len(HOTEL_JSON.items) :
          LET d == HOTEL_JSON.items[i].d IN
          /\ d.amenities_json.t = "string" /\ IsJsonArrayText(d.amenities_json.v)
          /\ Len(d.amenities_json.v) > 2
          /\ d.parking_json.t = "string" /\ IsJsonObjectText(d.parking_json.v)
          /\ d.pets_json.t = "string" /\ IsJsonObjectText(d.pets_json.v)

\* C9: no emitted or persisted record holds a bool in is_pet_friendly, and a
\* record whose detail extraction set the flag holds the string "true" for
\* True and "false" for False.
C9_PetFlagIsString ==
    /\ [](/\ \A i \in 1..Len(hotels) : hotels[i].is_pet_friendly.t # "bool"
          /\ \A i \in 1..Len(HOTEL_JSON.items) :
                HOTEL_JSON.items[i].d.is_pet_friendly.t # "boolean")
    /\ [][(pc = "finish" /\ out.is_pet_friendly.t = "bool") =>
            hotels'[Len(hotels')].is_pet_friendly =
               (IF out.is_pet_friendly = Bool(TRUE)
                THEN Str(<<"true">>) ELSE Str(<<"false">>))]_vars

\* C9 happens: a hotel found pet-friendly and one found not are persisted.
C9_Witness ==
    /\ HOTEL_JSON.kind = "array"
    /\ \E i, j \in 1..Len(HOTEL_JSON.items) :
          /\ HOTEL_JSON.items[i].d.is_pet_friendly = JsonValue(Str(<<"true">>))
          /\ HOTEL_JSON.items[j].d.is_pet_friendly = JsonValue(Str(<<"false">>))

\* Reading the prior output fails somewhere: the file is no JSON, the document
\* is no array, or an element of the array is no object.
LoadFails(f) ==
    \/ f.kind \in {"garbage", "scalar"}
    \/ f.kind = "array" /\ \E i \in 1..Len(f.items) : ~f.items[i].obj

\* C10: when reading or parsing the prior output fails at any point,
\* load_existing_output returns an empty mapping (main starts from no record).
C10_FailedLoadIsEmpty ==
    (pc = "city" /\ ci = 1 /\ ~OVERWRITE /\ LoadFails(HOTEL_JSON))
    => all_hotels = <<>>


\* C11: when scrape_city raised for a city, main took the city as empty: none
\* of the records scrape_city had built is merged, the merge and the save ran
\* and left the merged set and every persisted record as they were, and main
\* is on the next city.
C11_FailedCityIsEmpty ==
    /\ (pc = "merge" /\ merge_in.raised) => hotels = <<>>
    /\ (JustMerged /\ merge_in.raised) =>
          /\ merge_in.new = <<>>
          /\ all_hotels = merge_in.all
          /\ \A i \in 1..Len(json_before.items) :
                \E j \in 1..Len(HOTEL_JSON.items) :
                   HOTEL_JSON.items[j] = json_before.items[i]
          /\ Len(HOTEL_JSON.items) = Len(json_before.items)

\* C11 happens: an earlier city left a record in the output, and scrape_city
\* raised for the next after building a record under another key.
C11_Witness ==
    /\ JustMerged /\ merge_in.raised
    /\ json_before.kind = "array" /\ json_before.items # <<>>
    /\ \E i \in 1..Len(merge_in.lost) :
          \A j \in 1..Len(all_hotels) : KeyOf(all_hotels[j]) # KeyOf(merge_in.lost[i])

\* The positions of scrape_city inside the processing of one card
CardStates == {"card", "detail", "navigate", "extract", "cleanup"}

\* C12: a fault raised while a card is processed does not end scrape_city, and
\* when it ends the card, the card adds no record, the records collected so
\* far are kept, and the loop is at the next card with the browser on the
\* listing, so that the remaining cards are read and their records returned.
C12_FaultDropsOnlyThatCard ==
    [][(pc \in CardStates /\ faults' = faults + 1) =>
          /\ pc' # "merge"
          /\ pc' = "card" =>
                /\ hotels' = hotels
                /\ idx' = idx + 1
                /\ focus' = list_tab /\ list_tab \in tabs']_vars

\* C13: load_or_create_city_csv.  With a city list file that has at least one
\* row, scrape_city_urls is not called and the file is not written; with no
\* file, scrape_city_urls is called once, and what it returns is written once,
\* as the header city_name,city_url and one row per city, possibly none.
C13_CityListLoadedOrCreated ==
    /\ [](enum_calls <= 1 /\ csv_writes <= enum_calls)
    /\ [][pc = "start" =>
            /\ (CITY_CSV.kind = "csv" /\ Len(CITY_CSV.items) >= 1) =>
                  /\ enum_calls' = enum_calls
                  /\ csv_writes' = csv_writes
                  /\ CITY_CSV' = CITY_CSV
                  /\ cities' = FirstOnly(CITY_CSV.items)
            /\ (CITY_CSV.kind = "absent" /\ pc' = "city") =>
                  /\ enum_calls' = 1
                  /\ csv_writes' = 1
                  /\ CITY_CSV'.kind = "csv"
                  /\ CITY_CSV'.header = <<"city_name", "city_url">>
                  /\ cities' = FirstOnly(CITY_CSV'.items)]_vars
    /\ [][pc # "start" => CITY_CSV' = CITY_CSV]_vars
    /\ [][pc \notin {"start", "done"} =>
            enum_calls' = enum_calls /\ csv_writes' = csv_writes]_vars

\* C13 happens: the first run found no file and wrote the list it scraped,
\* shorter than any list the program starts with; the second run read it.
C13_Witness ==
    /\ run > 1 /\ pc = "city"
    /\ enum_calls = 0 /\ csv_writes = 0
    /\ (CITY_CSV.kind = "csv" /\ Len(CITY_CSV.items) >= 1) /\ Len(CITY_CSV.items) < MaxCities
    /\ cities = FirstOnly(CITY_CSV.items)

\* The record scrape_city emitted for the detail page
Emitted == hotels[Len(hotels)]

\* A pet keyword is in the record's description or in its amenities
PetKeywordIn(r) ==
    \/ r.description.t = "str" /\ AnyIn(r.description.v, DescPetTexts)
    \/ /\ r.amenities_json.t = "str" /\ IsJsonArrayText(r.amenities_json.v)
       /\ AnyIn(ArrayItems(r.amenities_json.v), AmenityPetItems)

\* C14: for a detail page without a pet policy link the emitted record has
\* is_pet_friendly "true" when its description or its amenities hold a pet
\* keyword and "false" when they do not, and pets_json null.
C14_PetInferredWithoutLink ==
    (pc = "d_emitted" /\ card.page.pet_link = "none") =>
        /\ Emitted.pets_json = None
        /\ Emitted.is_pet_friendly =
              (IF PetKeywordIn(Emitted) THEN Str(<<"true">>) ELSE Str(<<"false">>))

\* C14 happens: no pet policy link, no pet keyword in the description, and the
\* amenities read from the amenities page make the hotel pet-friendly.
C14_Witness ==
    /\ pc = "d_emitted" /\ card.page.pet_link = "none"
    /\ Emitted.description.t = "str"
    /\ ~AnyIn(Emitted.description.v, DescPetTexts)
    /\ card.page.highlights = <<"Pool">>
    /\ Emitted.is_pet_friendly = Str(<<"true">>)
    /\ Emitted.pets_json = None

\* C15: for a detail page with a pet policy link that can be followed, the
\* emitted record has is_pet_friendly "true", whatever the scan of the policy
\* page finds (no browser fault involved).
C15_PetLinkMeansFriendly ==
    (pc = "d_emitted" /\ card.page.pet_link = "ok" /\ faults = 0) =>
        Emitted.is_pet_friendly = Str(<<"true">>)

\* What the six sub-probes find on the amenities page of the card's hotel
SubProbes ==
    LET a == card.page.amen IN
    [amenities |-> _scrape_amenities_list_from_page(a),
     parking   |-> _scrape_parking_from_page(a),
     overview  |-> _scrape_overview_table_from_page(a),
     nearby    |-> _scrape_nearby_from_page(a),
     airport   |-> _scrape_airport_from_page(a),
     phone     |-> _extract_phone(a.tel, a.body_phone)]

\* C16: once the amenities link was followed and the page read without a
\* fault, _open_amenities_page_and_scrape returns None only if each of the six
\* sub-probes returned None; otherwise it returns what they found, and a phone
\* number found there reaches a detail dict that has none yet.
C16_AggregateNullOnlyIfAllNull ==
    [][(pc = "d_amen_page" /\ faults' = faults) =>
          LET res == _open_amenities_page_and_scrape(card.page) IN
          /\ res.t = "none" => \A k \in DOMAIN SubProbes : SubProbes[k] = None
          /\ res.t # "none" => res.d = SubProbes
          /\ (SubProbes.phone # None /\ out.phone = None) =>
                out'.phone = SubProbes.phone]_vars

\* d is a longest text among the blocks
IsLongestOf(d, blocks) ==
    /\ d.t = "str"
    /\ \E i \in 1..Len(blocks) :
          /\ d.v = <<blocks[i].s>>
          /\ \A j \in 1..Len(blocks) : blocks[j].n <= blocks[i].n

\* d is what the fallback of _extract_description_text gives: a longest
\* paragraph of the page, None when there is no paragraph with a text
IsFallbackOf(d, paragraphs) ==
    LET ps == SelectSeq(paragraphs, LAMBDA b : b.s # "") IN
    IF ps = <<>> THEN d = None ELSE IsLongestOf(d, ps)

\* The qualifying texts of all selector groups of the card's detail page
AllQualifying ==
    LET g == card.page.desc_blocks IN Qualifying(g[1] \o g[2] \o g[3])

\* C17 as stated: the description is the longest qualifying text across all
\* matching selector groups; with no matching group the longest paragraph of
\* the page; None when nothing qualifies.
C17_LongestAcrossGroups ==
    pc # "d_start" =>
        IF AllQualifying # <<>>
        THEN IsLongestOf(out.description, AllQualifying)
        ELSE IsFallbackOf(out.description, card.page.paragraphs)

\* C17, amended: the description is the longest qualifying text of the first
\* selector group, in the order of the list, that holds a qualifying text;
\* with no such group the longest paragraph of the page; None when nothing
\* qualifies.
C17_LongestOfFirstGroup ==
    pc # "d_start" =>
        LET g == card.page.desc_blocks IN
        IF AllQualifying # <<>>
        THEN \E i \in 1..Len(g) :
                /\ Qualifying(g[i]) # <<>>
                /\ \A j \in 1..(i - 1) : Qualifying(g[j]) = <<>>
                /\ IsLongestOf(out.description, Qualifying(g[i]))
        ELSE IsFallbackOf(out.description, card.page.paragraphs)

\* C17 happens: two groups hold a qualifying text, the later group the longer
\* one, and the description is the text of the earlier group.
C17_Witness ==
    /\ pc # "d_start"
    /\ Qualifying(card.page.desc_blocks[1]) # <<>>
    /\ Qualifying(card.page.desc_blocks[2]) # <<>>
    /\ ~IsLongestOf(out.description, AllQualifying)
    /\ IsLongestOf(out.description, Qualifying(card.page.desc_blocks[1]))

\* C18: after a merge whose save wrote the outputs (the merged set is not
\* empty), or that started from an output the pipeline had written, no two
\* records of the JSON output have the same identity key (hotel_code,
\* hotel_name), and the CSV output has one row per record.
C18_NoDuplicateKeys ==
    (JustMerged /\ (all_hotels # <<>> \/ PipelineWritten(json_before))) =>
        /\ PipelineWritten(HOTEL_JSON)
        /\ DistinctKeys(all_hotels)
        /\ all_hotels # <<>> => HOTEL_CSV = csv_rows(all_hotels)

\* C18 happens: the city returned one hotel twice, under a key the output
\* already had, and the output holds it once.
C18_Witness ==
    /\ JustMerged
    /\ Len(merge_in.new) = 2
    /\ KeyOf(merge_in.new[1]) = KeyOf(merge_in.new[2])
    /\ \E i \in 1..Len(merge_in.all) : KeyOf(merge_in.all[i]) = KeyOf(merge_in.new[1])
    /\ Len(HOTEL_JSON.items) = 1
    /\ HOTEL_JSON.items[1].obj

\* C19: in the detail tab a back-navigation follows a link click, one per
\* click, and between the same-tab steps the tab shows the hotel detail page.
C19_BackOncePerClick ==
    /\ nav.backs <= nav.clicks
    /\ pc \in {"d_amen", "d_pet", "d_done"} =>
          /\ nav.backs = nav.clicks
          /\ Current = "detail"

====
